---- MODULE Spec2Model ----
(***************************************************************************)
(* SequelizeChangeTracker (src/index.js, the documented class at lines     *)
(* 406-815): the dependency map built by the constructor, the two          *)
(* subscription registers and the notification computation.                *)
(*                                                                         *)
(* JavaScript values are modelled as strings.  The two non-string values   *)
(* the code distinguishes are written Undefined and Null; a property       *)
(* access obj[ v ] goes through ToPropertyKey, as in JavaScript.           *)
(* Array indices are 1-based here; 0 stands for findIndex's -1.            *)
(***************************************************************************)
EXTENDS Naturals, Sequences, FiniteSets, TLC

VARIABLES
    modelNames,               \* this.modelNames
    dependingModelMap,        \* this.dependingModelMap
    subscriptionsByResource,  \* this.subscriptionsByResource
    subscriptionsById,        \* this.subscriptionsById
    call,                     \* the call that has just run, Idle once it returned
    thrown,                   \* what that call threw ("none" when it returned)
    emitted,                  \* the events that call emitted, in order
    before                    \* both registers as they were when that call began

vars == << modelNames, dependingModelMap, subscriptionsByResource,
           subscriptionsById, call, thrown, emitted, before >>

----------------------------------------------------------------------------
(* Bounds of the model *)

\* at most this many subscriptions are registered at a time
MaxSubscriptions == 2

\* and at most this many where a single subscriber is followed
MaxSubscriptionsOfOne == 3

\* at most this many associations are declared between the models
MaxAssociations == 2

\* at most this many subscriptions are kept where the hooks are followed
MaxSubscriptionsOfHooks == 2

----------------------------------------------------------------------------
(* JavaScript values *)

Undefined == "<undefined>"
Null == "<null>"

\* obj[ v ]: the property key a value is converted to
ToPropertyKey(v) ==
    IF v = Undefined THEN "undefined"
    ELSE IF v = Null THEN "null"
    ELSE v

\* obj[ key ] of an object modelled as a function: undefined when absent
GetProp(obj, v) ==
    IF ToPropertyKey(v) \in DOMAIN obj THEN obj[ToPropertyKey(v)] ELSE Undefined

\* obj[ key ] = value
SetProp(obj, v, value) ==
    [ k \in (DOMAIN obj) \cup {ToPropertyKey(v)} |->
        IF k = ToPropertyKey(v) THEN value ELSE obj[k] ]

\* array.includes( x )
Includes(array, x) == \E i \in 1..Len(array) : array[i] = x

\* array.splice( index, 1 )
Splice(array, index) ==
    [ i \in 1..(Len(array) - 1) |-> IF i < index THEN array[i] ELSE array[i + 1] ]

\* [ ...new Set( array ) ]: first occurrences, in order
RECURSIVE UniqueInOrder(_)
UniqueInOrder(array) ==
    IF array = << >> THEN << >>
    ELSE LET front == UniqueInOrder(SubSeq(array, 1, Len(array) - 1))
             last  == array[Len(array)]
         IN IF Includes(front, last) THEN front ELSE Append(front, last)

----------------------------------------------------------------------------
(* The inputs *)

\* the subscription ids callers use
SubscriptionIds == { 1, 2 }

\* the models handed to the constructor (src/test/models/db.js, lines 3-11)
Models == << "Message", "Thread", "User" >>

\* a model name the constructor was not given
UnknownModel == "Unknown"

\* model.associations of each model: the association class and its target;
\* the source of an association is the model that holds it
Associations ==
    [ m \in { Models[i] : i \in 1..Len(Models) } |->
        CASE m = "User"    -> << [ kind |-> "HasMany", target |-> "Message" ] >>
          [] m = "Thread"  -> << [ kind |-> "HasMany", target |-> "Message" ] >>
          [] m = "Message" -> << [ kind |-> "BelongsTo", target |-> "User" ],
                                 [ kind |-> "BelongsTo", target |-> "Thread" ] >> ]

\* the instanceId arguments tried, in the order they are tried: a UUID-like
\* string, undefined (which asks for a generic subscription), null and the
\* string 'generic'
InstanceIdArgs == << "r1", Undefined, Null, "generic" >>

\* those that name an instance
InstanceIds == { InstanceIdArgs[i] : i \in 1..Len(InstanceIdArgs) } \ { Undefined }

----------------------------------------------------------------------------
(* constructor *)

\* the association pushed without the includes test
ApplyAssociation_NoIncludesTest(state, source, association) ==
    LET key == IF association.kind \in { "BelongsTo", "BelongsToMany" }
               THEN source ELSE association.target
        dependentModel == IF association.kind \in { "BelongsTo", "BelongsToMany" }
                          THEN association.target ELSE source
    IN IF state.threw THEN state
       ELSE IF association.kind \notin { "BelongsTo", "BelongsToMany", "HasOne", "HasMany" }
            THEN state
       ELSE IF key \notin DOMAIN state.map
            THEN [ state EXCEPT !.threw = TRUE ]
       ELSE [ state EXCEPT !.map[key] = Append(@, dependentModel) ]

\* every association entered under its source, a HasOne or HasMany too
ApplyAssociation_UnderSource(state, source, association) ==
    IF state.threw THEN state
    ELSE IF association.kind \notin { "BelongsTo", "BelongsToMany", "HasOne", "HasMany" }
         THEN state
    ELSE IF Includes(state.map[source], association.target) THEN state
    ELSE [ state EXCEPT !.map[source] = Append(@, association.target) ]

\* one association of model `source` applied to the map; threw is set when
\* this.dependingModelMap[ name ] is undefined and .includes is called on it
ApplyAssociation(state, source, association) ==
    LET key == IF association.kind \in { "BelongsTo", "BelongsToMany" }
               THEN source ELSE association.target
        dependentModel == IF association.kind \in { "BelongsTo", "BelongsToMany" }
                          THEN association.target ELSE source
    IN IF state.threw THEN state
       ELSE IF association.kind \notin { "BelongsTo", "BelongsToMany", "HasOne", "HasMany" }
            THEN state
       ELSE IF key \notin DOMAIN state.map
            THEN [ state EXCEPT !.threw = TRUE ]
       ELSE IF Includes(state.map[key], dependentModel) THEN state
       ELSE [ state EXCEPT !.map[key] = Append(@, dependentModel) ]

RECURSIVE ApplyAssociations(_, _, _)
ApplyAssociations(state, source, associations) ==
    IF associations = << >> THEN state
    ELSE ApplyAssociations(ApplyAssociation(state, source, Head(associations)),
                           source, Tail(associations))

\* the loop over the models: the associations of each, then its entry in
\* the "subscriptions by resource" register
RECURSIVE ConstructModels(_, _, _)
ConstructModels(state, models, associations) ==
    IF models = << >> \/ state.threw THEN state
    ELSE LET modelName == Head(models)
             assoc == ApplyAssociations(state, modelName, associations[modelName])
             next  == IF assoc.threw THEN assoc
                      ELSE [ assoc EXCEPT !.sbr =
                                SetProp(@, modelName, [ generic |-> << >> ]) ]
         IN ConstructModels(next, Tail(models), associations)

Constructor(models, associations) ==
    ConstructModels(
        [ threw |-> FALSE,
          names |-> models,
          map   |-> [ m \in { models[i] : i \in 1..Len(models) } |-> << >> ],
          sbr   |-> << >>,
          sbi   |-> << >> ],
        models, associations)

----------------------------------------------------------------------------
(* The registers *)

Registers == [ sbi |-> subscriptionsById, sbr |-> subscriptionsByResource ]

\* the number of entries of the register indexed by subscription id
RECURSIVE SumLengths(_, _)
SumLengths(f, keys) ==
    IF keys = {} THEN 0
    ELSE LET k == CHOOSE x \in keys : TRUE
         IN Len(f[k]) + SumLengths(f, keys \ {k})

Registered(sbi) == SumLengths(sbi, DOMAIN sbi)

\* array.findIndex( pred ), 0 for -1; hits[ i ] tells whether pred holds of
\* the i-th element
FirstIndex(hits) ==
    IF \E i \in 1..Len(hits) : hits[i]
    THEN CHOOSE i \in 1..Len(hits) : hits[i] /\ \A j \in 1..(i - 1) : ~hits[j]
    ELSE 0

\* obj[ v ] || [], for a property that holds an array when it is defined
ListProp(obj, v) ==
    IF ToPropertyKey(v) \in DOMAIN obj THEN obj[ToPropertyKey(v)] ELSE << >>

FindSubscriptionIndices(reg, subscriptionId, modelName, instanceId, generic) ==
    LET list == IF subscriptionId \in DOMAIN reg.sbi
                THEN reg.sbi[subscriptionId] ELSE << >>
        modelProp == IF generic = TRUE THEN "generic" ELSE instanceId
        resourceList == ListProp(reg.sbr[modelName], modelProp)
    IN [ sbiIndex |-> FirstIndex(
            [ i \in 1..Len(list) |->
                /\ list[i].modelName = modelName
                /\ IF generic = TRUE THEN list[i].generic = TRUE
                   ELSE list[i].instanceId = instanceId ]),
         sbrIndex |-> FirstIndex(
            [ i \in 1..Len(resourceList) |-> resourceList[i] = subscriptionId ]) ]

\* the guard left out: every model name passes
IsKnownModel_NoGuard(names, modelName) == TRUE

\* this.modelNames.includes( modelName ), the guard of addSubscription
IsKnownModel(names, modelName) == Includes(names, modelName)

\* the test written as a truthiness test of the index, which misses a match
\* at the first position
AlreadySubscribed_SkipsFirst(indices) == indices.sbiIndex > 1

\* the test that makes addSubscription throw 'Already subscribed'
AlreadySubscribed(indices) == indices.sbiIndex # 0

\* the subscription object pushed on subscriptionsById[ subscriptionId ].
\* A specific object has no generic property and a generic one no instanceId:
\* instanceId then reads as undefined, and generic, which the code only ever
\* tests with === true, as FALSE
SubscriptionObject(modelName, instanceId, generic) ==
    IF generic
    THEN [ modelName |-> modelName, generic |-> TRUE, instanceId |-> Undefined ]
    ELSE [ modelName |-> modelName, generic |-> FALSE, instanceId |-> instanceId ]

\* addSubscription without its emit
AddSubscription_NoEmit(names, reg, modelName, subscriptionId, instanceId) ==
    IF ~IsKnownModel(names, modelName)
    THEN [ reg |-> reg, thrown |-> "Unknown model", emitted |-> << >> ]
    ELSE IF modelName \notin DOMAIN reg.sbr
    \* findSubscriptionIndices reads a property of undefined (line 722)
    THEN [ reg |-> reg, thrown |-> "TypeError", emitted |-> << >> ]
    ELSE
    LET generic == (instanceId = Undefined)
        indices == FindSubscriptionIndices(reg, subscriptionId, modelName, instanceId, generic)
    IN IF AlreadySubscribed(indices)
       THEN [ reg |-> reg, thrown |-> "Already subscribed", emitted |-> << >> ]
       ELSE
       LET list == IF subscriptionId \in DOMAIN reg.sbi
                   THEN reg.sbi[subscriptionId] ELSE << >>
           sbi == [ k \in (DOMAIN reg.sbi) \cup {subscriptionId} |->
                      IF k = subscriptionId
                      THEN Append(list, SubscriptionObject(modelName, instanceId, generic))
                      ELSE reg.sbi[k] ]
           modelProp == IF generic THEN "generic" ELSE instanceId
           \* Array.isArray: every defined property of the register is an array
           resourceList == ListProp(reg.sbr[modelName], modelProp)
           sbr == [ reg.sbr EXCEPT ![modelName] =
                      SetProp(@, modelProp, Append(resourceList, subscriptionId)) ]
       IN [ reg |-> [ sbi |-> sbi, sbr |-> sbr ],
            thrown |-> "none",
            emitted |-> << >> ]

\* addSubscription({ modelName, subscriptionId, instanceId }): the registers
\* after the call, what it threw and the events it emitted
AddSubscription(names, reg, modelName, subscriptionId, instanceId) ==
    IF ~IsKnownModel(names, modelName)
    THEN [ reg |-> reg, thrown |-> "Unknown model", emitted |-> << >> ]
    ELSE IF modelName \notin DOMAIN reg.sbr
    \* findSubscriptionIndices reads a property of undefined (line 722)
    THEN [ reg |-> reg, thrown |-> "TypeError", emitted |-> << >> ]
    ELSE
    LET generic == (instanceId = Undefined)
        indices == FindSubscriptionIndices(reg, subscriptionId, modelName, instanceId, generic)
    IN IF AlreadySubscribed(indices)
       THEN [ reg |-> reg, thrown |-> "Already subscribed", emitted |-> << >> ]
       ELSE
       LET list == IF subscriptionId \in DOMAIN reg.sbi
                   THEN reg.sbi[subscriptionId] ELSE << >>
           sbi == [ k \in (DOMAIN reg.sbi) \cup {subscriptionId} |->
                      IF k = subscriptionId
                      THEN Append(list, SubscriptionObject(modelName, instanceId, generic))
                      ELSE reg.sbi[k] ]
           modelProp == IF generic THEN "generic" ELSE instanceId
           \* Array.isArray: every defined property of the register is an array
           resourceList == ListProp(reg.sbr[modelName], modelProp)
           sbr == [ reg.sbr EXCEPT ![modelName] =
                      SetProp(@, modelProp, Append(resourceList, subscriptionId)) ]
       IN [ reg |-> [ sbi |-> sbi, sbr |-> sbr ],
            thrown |-> "none",
            emitted |-> << [ type |-> "subscriptions-changed",
                             subscriptionId |-> subscriptionId,
                             modelName |-> modelName,
                             instanceId |-> instanceId,
                             generic |-> generic ] >> ]

\* the methods and function-valued fields an instance has: those the class
\* declares (lines 414-807) and those of EventEmitter the code uses
InstanceMethods ==
    { "notifySubscribers", "removeSubscriptionAllModels", "findSubscriptionIndices",
      "removeSubscription", "addSubscription", "destroy", "emit", "on" }

\* this[ name ]( ... ) throws a TypeError when this[ name ] is not a function
IsCallable(name) == name \in InstanceMethods

\* removeSubscription({ subscriptionId, modelName, instanceId, generic }).
\* Its first statement calls this.findSBIIndex, which no line of the class
\* defines; lines 739-747 are written out below as they would run with the
\* indices of findSubscriptionIndices.
RemoveSubscription(reg, subscriptionId, modelName, instanceId, generic) ==
    IF ~IsCallable("findSBIIndex")
    THEN [ reg |-> reg, thrown |-> "TypeError" ]
    ELSE
    LET indices == FindSubscriptionIndices(reg, subscriptionId, modelName, instanceId, generic)
    IN IF indices.sbiIndex = 0 \/ indices.sbrIndex = 0
       THEN [ reg |-> reg, thrown |-> "Can't find subscription" ]
       ELSE
       LET modelProp == IF generic = TRUE THEN "generic" ELSE instanceId
       IN [ reg |-> [ sbi |-> [ reg.sbi EXCEPT ![subscriptionId] =
                                  Splice(@, indices.sbiIndex) ],
                      sbr |-> [ reg.sbr EXCEPT ![modelName] =
                                  SetProp(@, modelProp,
                                          Splice(ListProp(@, modelProp), indices.sbrIndex)) ] ],
            thrown |-> "none" ]

\* the for-of loop of removeSubscriptionAllModels from position i on: it
\* reads the live array this.subscriptionsById[ subscriptionId ], which
\* removeSubscription splices; an exception ends the loop
RECURSIVE RemoveFrom(_, _, _)
RemoveFrom(reg, subscriptionId, i) ==
    IF i > Len(reg.sbi[subscriptionId]) THEN [ reg |-> reg, thrown |-> "none" ]
    ELSE LET subObj == reg.sbi[subscriptionId][i]
             r == RemoveSubscription(reg, subscriptionId, subObj.modelName,
                                     subObj.instanceId, subObj.generic)
         IN IF r.thrown # "none" THEN r
            ELSE RemoveFrom(r.reg, subscriptionId, i + 1)

\* removeSubscriptionAllModels( subscriptionId ); for-of over undefined throws
RemoveSubscriptionAllModels(reg, subscriptionId) ==
    IF subscriptionId \notin DOMAIN reg.sbi
    THEN [ reg |-> reg, thrown |-> "TypeError" ]
    ELSE RemoveFrom(reg, subscriptionId, 1)

----------------------------------------------------------------------------
(* Notification *)

genericOperations == { "create", "delete" }

specificOperations == { "update", "delete" }

\* `${dependingModel}Id`
ForeignKey(dependingModel) == dependingModel \o "Id"

\* the generic list read from the first model whatever model changed
DirectSubscriptionIds_OfFirstModel(sbr, modelName, operation, instanceData) ==
    LET genericSubIds == IF operation \in genericOperations
                         THEN sbr[Models[1]].generic ELSE << >>
        specificSubIds == IF operation \in specificOperations
                          THEN ListProp(sbr[modelName], GetProp(instanceData, "id"))
                          ELSE << >>
    IN UniqueInOrder(genericSubIds \o specificSubIds)

\* the ids taken directly from the register of the changed model: generic
\* ones, then those of the instance, duplicates filtered out
DirectSubscriptionIds(sbr, modelName, operation, instanceData) ==
    LET genericSubIds == IF operation \in genericOperations
                         THEN sbr[modelName].generic ELSE << >>
        specificSubIds == IF operation \in specificOperations
                          THEN ListProp(sbr[modelName], GetProp(instanceData, "id"))
                          ELSE << >>
    IN UniqueInOrder(genericSubIds \o specificSubIds)

\* the loop left out: nothing is pushed for the instances referred to
Cascade_NoPush(sbr, dependingModels, instanceData, subscriptionIds) ==
    [ thrown |-> "none", ids |-> subscriptionIds ]

\* the loop over this.dependingModelMap[ modelName ]: the subscriptions on the
\* instance each foreign key names are pushed on subscriptionIds
RECURSIVE Cascade(_, _, _, _)
Cascade(sbr, dependingModels, instanceData, subscriptionIds) ==
    IF dependingModels = << >> THEN [ thrown |-> "none", ids |-> subscriptionIds ]
    ELSE LET dependingModel == Head(dependingModels)
             dependingInstanceId == GetProp(instanceData, ForeignKey(dependingModel))
         IN IF dependingModel \notin DOMAIN sbr
            THEN [ thrown |-> "TypeError", ids |-> subscriptionIds ]
            ELSE Cascade(sbr, Tail(dependingModels), instanceData,
                         subscriptionIds
                            \o ListProp(sbr[dependingModel], dependingInstanceId))

\* the generic list of the model itself handed on when it is read
SameArrayAs_GenericList(modelName, operation) ==
    IF operation \in genericOperations THEN { << modelName, "generic" >> } ELSE { }

\* the lists of the by-resource register, as (model, property), that are the
\* very array the event hands to the listeners: none, the lists are spread
\* into a new array ([ ...new Set( ... ) ]) that the cascade pushes on
SameArrayAs(modelName, operation) == { }

\* notifySubscribers without the test on subscriptionIds.length
NotifySubscribers_AlwaysEmits(reg, dmm, modelName, operation, changedFields, instanceData) ==
    IF modelName \notin DOMAIN reg.sbr \/ modelName \notin DOMAIN dmm
    THEN [ thrown |-> "TypeError", emitted |-> << >> ]
    ELSE
    LET direct == DirectSubscriptionIds(reg.sbr, modelName, operation, instanceData)
        all == Cascade(reg.sbr, dmm[modelName], instanceData, direct)
    IN IF all.thrown # "none" THEN [ thrown |-> all.thrown, emitted |-> << >> ]
       ELSE [ thrown |-> "none",
              emitted |-> << [ type |-> "data-changed",
                               operation |-> operation,
                               model |-> modelName,
                               instance |-> instanceData,
                               changedFields |-> changedFields,
                               subscriptionIds |-> all.ids ] >> ]

\* notifySubscribers({ modelName, operation, changedFields, instanceData })
NotifySubscribers(reg, dmm, modelName, operation, changedFields, instanceData) ==
    IF modelName \notin DOMAIN reg.sbr \/ modelName \notin DOMAIN dmm
    THEN [ thrown |-> "TypeError", emitted |-> << >> ]
    ELSE
    LET direct == DirectSubscriptionIds(reg.sbr, modelName, operation, instanceData)
        all == Cascade(reg.sbr, dmm[modelName], instanceData, direct)
    IN IF all.thrown # "none" THEN [ thrown |-> all.thrown, emitted |-> << >> ]
       ELSE IF Len(all.ids) > 0
       THEN [ thrown |-> "none",
              emitted |-> << [ type |-> "data-changed",
                               operation |-> operation,
                               model |-> modelName,
                               instance |-> instanceData,
                               changedFields |-> changedFields,
                               subscriptionIds |-> all.ids ] >> ]
       ELSE [ thrown |-> "none", emitted |-> << >> ]

\* the operations the hooks pass to notifySubscribers
Operations == { "create", "update", "delete" }

\* options.fields of the hooks
ChangedFieldsArgs == { << "value" >> }

\* the values tried for the id of a changed record and for a foreign key of
\* it, in the order they are tried; undefined stands for a field left out
DataValues == << "r1", Undefined, Null, "generic", "r2" >>

\* the foreign keys instance.dataValues of a model holds
ForeignKeysOf(modelName) ==
    IF modelName = "Message" THEN { "UserId", "ThreadId" } ELSE { }

\* instance.dataValues of a model: its id and its foreign keys
InstanceData(modelName, id, userId, threadId) ==
    [ f \in { "id" } \cup ForeignKeysOf(modelName) |->
        CASE f = "id" -> id
          [] f = "UserId" -> userId
          [] f = "ThreadId" -> threadId ]

----------------------------------------------------------------------------
(* The hooks *)

\* options.trackChanges as the hooks read it: whether it is given, and its
\* subscriptionId, where 0 stands for one that is missing or falsy
TrackChangesArgs ==
    << [ trackChanges |-> FALSE, subscriptionId |-> 0 ],
       [ trackChanges |-> TRUE, subscriptionId |-> 1 ],
       [ trackChanges |-> TRUE, subscriptionId |-> 2 ],
       [ trackChanges |-> TRUE, subscriptionId |-> 0 ] >>

\* the loop left after its first instance
AddSubscriptions_FirstOnly(names, reg, instances, subscriptionId, out) ==
    IF instances = << >> THEN [ reg |-> reg, thrown |-> "none", emitted |-> out ]
    ELSE LET r == AddSubscription(names, reg, Head(instances).model, subscriptionId,
                                  GetProp(Head(instances).dataValues, "id"))
         IN [ reg |-> r.reg, thrown |-> r.thrown, emitted |-> out \o r.emitted ]

\* the loop over iterableInstances: one addSubscription per instance, until
\* one of them throws; out is what was emitted so far
RECURSIVE AddSubscriptions(_, _, _, _, _)
AddSubscriptions(names, reg, instances, subscriptionId, out) ==
    IF instances = << >> THEN [ reg |-> reg, thrown |-> "none", emitted |-> out ]
    ELSE LET inst == Head(instances)
             r == AddSubscription(names, reg, inst.model, subscriptionId,
                                  GetProp(inst.dataValues, "id"))
         IN IF r.thrown # "none"
            THEN [ reg |-> r.reg, thrown |-> r.thrown, emitted |-> out \o r.emitted ]
            ELSE AddSubscriptions(names, r.reg, Tail(instances), subscriptionId,
                                  out \o r.emitted)

\* #addSubscriptionIfRequested( modelName, instance, options ), where
\* instance is null (kind "null"), one instance or an array of instances
AddSubscriptionIfRequested(names, reg, modelName, instance, options) ==
    IF instance.kind = "null"
    THEN [ reg |-> reg, thrown |-> "none", emitted |-> << >> ]
    ELSE IF ~options.trackChanges
    THEN [ reg |-> reg, thrown |-> "none", emitted |-> << >> ]
    ELSE IF options.subscriptionId = 0
    THEN [ reg |-> reg, thrown |-> "Missing subscription id", emitted |-> << >> ]
    ELSE AddSubscriptions(names, reg, instance.items, options.subscriptionId, << >>)

\* the afterCreate and afterUpdate hooks: the subscription if requested,
\* then notifySubscribers for the instance
AfterWrite(names, reg, dmm, modelName, operation, inst, options, changedFields) ==
    LET a == AddSubscriptionIfRequested(names, reg, modelName,
                                        [ kind |-> "one", items |-> << inst >> ],
                                        options)
        n == NotifySubscribers(a.reg, dmm, modelName, operation, changedFields,
                               inst.dataValues)
    IN IF a.thrown # "none" THEN a
       ELSE [ reg |-> a.reg, thrown |-> n.thrown, emitted |-> a.emitted \o n.emitted ]

\* the afterBulkCreate hook left after its first instance
AfterBulkCreate_FirstOnly(names, reg, dmm, modelName, instances, options, changedFields, out) ==
    IF instances = << >> THEN [ reg |-> reg, thrown |-> "none", emitted |-> out ]
    ELSE AfterWrite(names, reg, dmm, modelName, "create",
                    Head(instances), options, changedFields)

\* the afterBulkCreate hook: for each instance what afterCreate does
RECURSIVE AfterBulkCreate(_, _, _, _, _, _, _, _)
AfterBulkCreate(names, reg, dmm, modelName, instances, options, changedFields, out) ==
    IF instances = << >> THEN [ reg |-> reg, thrown |-> "none", emitted |-> out ]
    ELSE LET r == AfterWrite(names, reg, dmm, modelName, "create",
                             Head(instances), options, changedFields)
         IN IF r.thrown # "none"
            THEN [ reg |-> r.reg, thrown |-> r.thrown, emitted |-> out \o r.emitted ]
            ELSE AfterBulkCreate(names, r.reg, dmm, modelName, Tail(instances),
                                 options, changedFields, out \o r.emitted)

\* the ids of the instances a hook is handed, one list per call tried
RecordIdLists == << << >>, << "r1" >>, << "r1", "r2" >>, << "r2", "r1" >> >>

\* an instance of a model: inst.constructor.name and inst.dataValues, its
\* foreign keys naming r1
Instance(modelName, id) ==
    [ model |-> modelName, dataValues |-> InstanceData(modelName, id, "r1", "r1") ]

Instances(modelName, ids) == [ i \in 1..Len(ids) |-> Instance(modelName, ids[i]) ]

----------------------------------------------------------------------------
(* The state machine *)

Idle == [ op |-> "idle" ]

Init ==
    LET built == Constructor(Models, Associations)
    IN /\ ~built.threw
       /\ modelNames = built.names
       /\ dependingModelMap = built.map
       /\ subscriptionsByResource = built.sbr
       /\ subscriptionsById = built.sbi
       /\ call = Idle
       /\ thrown = "none"
       /\ emitted = << >>
       /\ before = [ sbi |-> built.sbi, sbr |-> built.sbr ]

\* the caller has seen the outcome of its call and the listeners have run
Return ==
    /\ call # Idle
    /\ call' = Idle
    /\ thrown' = "none"
    /\ emitted' = << >>
    /\ before' = Registers
    /\ UNCHANGED << modelNames, dependingModelMap,
                    subscriptionsByResource, subscriptionsById >>

\* one call of addSubscription, while at most `limit` subscriptions are kept
AddSubscriptionCall(modelName, subscriptionId, instanceId, limit) ==
    LET r == AddSubscription(modelNames, Registers, modelName, subscriptionId, instanceId)
    IN /\ Registered(r.reg.sbi) <= limit
       /\ subscriptionsById' = r.reg.sbi
       /\ subscriptionsByResource' = r.reg.sbr
       /\ call' = [ op |-> "addSubscription", modelName |-> modelName,
                    subscriptionId |-> subscriptionId, instanceId |-> instanceId ]
       /\ thrown' = r.thrown
       /\ emitted' = r.emitted
       /\ before' = Registers
       /\ UNCHANGED << modelNames, dependingModelMap >>

CallAddSubscription ==
    /\ call = Idle
    /\ \E modelName \in DOMAIN Associations \cup { UnknownModel },
          subscriptionId \in SubscriptionIds,
          i \in 1..Len(InstanceIdArgs) :
        AddSubscriptionCall(modelName, subscriptionId, InstanceIdArgs[i], MaxSubscriptions)

\* removeSubscription called with a subscription object: { modelName,
\* generic: true } or { modelName, instanceId }
CallRemoveSubscription ==
    /\ call = Idle
    /\ \E modelName \in DOMAIN Associations,
          subscriptionId \in SubscriptionIds,
          i \in 1..Len(InstanceIdArgs) :
        LET instanceId == InstanceIdArgs[i]
            generic == (instanceId = Undefined)
            r == RemoveSubscription(Registers, subscriptionId, modelName, instanceId, generic)
        IN /\ subscriptionsById' = r.reg.sbi
           /\ subscriptionsByResource' = r.reg.sbr
           /\ call' = [ op |-> "removeSubscription", modelName |-> modelName,
                        subscriptionId |-> subscriptionId, instanceId |-> instanceId,
                        generic |-> generic, followsAdd |-> FALSE ]
           /\ thrown' = r.thrown
           /\ emitted' = << >>
           /\ before' = Registers
           /\ UNCHANGED << modelNames, dependingModelMap >>

\* removeSubscription called right after a successful addSubscription, for
\* the subscription just added; before keeps the registers from before the
\* addSubscription
CallRemoveSubscriptionAfterAdd ==
    /\ call.op = "addSubscription"
    /\ thrown = "none"
    /\ LET generic == (call.instanceId = Undefined)
           r == RemoveSubscription(Registers, call.subscriptionId, call.modelName,
                                   call.instanceId, generic)
       IN /\ subscriptionsById' = r.reg.sbi
          /\ subscriptionsByResource' = r.reg.sbr
          /\ call' = [ op |-> "removeSubscription", modelName |-> call.modelName,
                       subscriptionId |-> call.subscriptionId,
                       instanceId |-> call.instanceId,
                       generic |-> generic, followsAdd |-> TRUE ]
          /\ thrown' = r.thrown
          /\ emitted' = << >>
          /\ before' = before
          /\ UNCHANGED << modelNames, dependingModelMap >>

CallRemoveSubscriptionAllModels ==
    /\ call = Idle
    /\ \E subscriptionId \in SubscriptionIds :
        LET r == RemoveSubscriptionAllModels(Registers, subscriptionId)
        IN /\ subscriptionsById' = r.reg.sbi
           /\ subscriptionsByResource' = r.reg.sbr
           /\ call' = [ op |-> "removeSubscriptionAllModels",
                        subscriptionId |-> subscriptionId ]
           /\ thrown' = r.thrown
           /\ emitted' = << >>
           /\ before' = Registers
           /\ UNCHANGED << modelNames, dependingModelMap >>

\* one call of notifySubscribers
NotifySubscribersCall(modelName, operation, changedFields, instanceData) ==
    LET r == NotifySubscribers(Registers, dependingModelMap, modelName,
                               operation, changedFields, instanceData)
    IN /\ call' = [ op |-> "notifySubscribers", modelName |-> modelName,
                    operation |-> operation, changedFields |-> changedFields,
                    instanceData |-> instanceData ]
       /\ thrown' = r.thrown
       /\ emitted' = r.emitted
       /\ before' = Registers
       /\ UNCHANGED << modelNames, dependingModelMap,
                       subscriptionsByResource, subscriptionsById >>

CallNotifySubscribers ==
    /\ call = Idle
    /\ \E modelName \in DOMAIN Associations,
          operation \in Operations,
          changedFields \in ChangedFieldsArgs,
          i \in 1..Len(DataValues) :
        \E j, k \in IF ForeignKeysOf(modelName) = { } THEN { 1 }
                    ELSE 1..(Len(DataValues) - 1) :
            NotifySubscribersCall(modelName, operation, changedFields,
                                  InstanceData(modelName, DataValues[i],
                                               DataValues[j], DataValues[k]))

\* a listener of data-changed empties the subscriptionIds array the event
\* handed it (subscriptionIds.length = 0); a list of the register that is
\* the same array is emptied with it
ListenerEmptiesSubscriptionIds ==
    /\ call.op = "notifySubscribers"
    /\ emitted # << >>
    /\ emitted' = [ emitted EXCEPT ![1].subscriptionIds = << >> ]
    /\ subscriptionsByResource' =
          [ m \in DOMAIN subscriptionsByResource |->
              [ k \in DOMAIN subscriptionsByResource[m] |->
                  IF << m, k >> \in SameArrayAs(call.modelName, call.operation)
                  THEN << >> ELSE subscriptionsByResource[m][k] ] ]
    /\ call' = [ call EXCEPT !.op = "listener" ]
    /\ UNCHANGED << modelNames, dependingModelMap, subscriptionsById, thrown, before >>

\* a listener of data-changed calls addSubscription, while notifySubscribers
\* is still in its emit, for the model of the event; the array the event
\* holds changes with a list of the register that is the same array
ListenerAddsSubscription ==
    /\ call.op = "notifySubscribers"
    /\ emitted # << >>
    /\ \E subscriptionId \in SubscriptionIds, i \in 1..2 :
        LET r == AddSubscription(modelNames, Registers, call.modelName,
                                 subscriptionId, InstanceIdArgs[i])
            modelProp == IF InstanceIdArgs[i] = Undefined
                         THEN "generic" ELSE InstanceIdArgs[i]
        IN /\ Registered(r.reg.sbi) <= MaxSubscriptions
           /\ subscriptionsById' = r.reg.sbi
           /\ subscriptionsByResource' = r.reg.sbr
           /\ emitted' =
                 [ emitted EXCEPT ![1].subscriptionIds =
                     IF << call.modelName, modelProp >>
                          \in SameArrayAs(call.modelName, call.operation)
                     THEN r.reg.sbr[call.modelName][modelProp] ELSE @ ]
                   \o r.emitted
           /\ thrown' = r.thrown
           /\ call' = [ call EXCEPT !.op = "reentered" ]
           /\ UNCHANGED << modelNames, dependingModelMap, before >>

Next ==
    \/ CallAddSubscription
    \/ ListenerEmptiesSubscriptionIds
    \/ ListenerAddsSubscription
    \/ CallRemoveSubscription
    \/ CallRemoveSubscriptionAfterAdd
    \/ CallRemoveSubscriptionAllModels
    \/ CallNotifySubscribers
    \/ Return

Spec == Init /\ [][Next]_vars

----------------------------------------------------------------------------
(* Construction: the models are handed to the constructor with associations *)
(* declared between them in any way, towards an unknown model too.          *)

AssociationKinds == { "BelongsTo", "BelongsToMany", "HasOne", "HasMany" }

\* one declared association: source.kind(target)
Declarations ==
    [ source : { Models[i] : i \in 1..Len(Models) },
      kind   : AssociationKinds,
      target : { Models[i] : i \in 1..Len(Models) } \cup { UnknownModel } ]

\* model.associations of each model, in the order of declaration
AssociationsOf(declarations) ==
    [ m \in { Models[i] : i \in 1..Len(Models) } |->
        SelectSeq(declarations, LAMBDA d : d.source = m) ]

InitNew ==
    /\ \E n \in 0..MaxAssociations : \E declarations \in [ 1..n -> Declarations ] :
          call = [ op |-> "new", models |-> Models,
                   associations |-> AssociationsOf(declarations) ]
    /\ modelNames = << >>
    /\ dependingModelMap = << >>
    /\ subscriptionsByResource = << >>
    /\ subscriptionsById = << >>
    /\ thrown = "none"
    /\ emitted = << >>
    /\ before = [ sbi |-> << >>, sbr |-> << >> ]

\* new SequelizeChangeTracker({ models }): the fields of the tracker, or the
\* TypeError of calling includes on an undefined list and no tracker
New ==
    /\ call.op = "new"
    /\ LET built == Constructor(call.models, call.associations)
       IN /\ thrown' = IF built.threw THEN "TypeError" ELSE "none"
          /\ modelNames' = IF built.threw THEN modelNames ELSE built.names
          /\ dependingModelMap' = IF built.threw THEN dependingModelMap ELSE built.map
          /\ subscriptionsByResource' =
                IF built.threw THEN subscriptionsByResource ELSE built.sbr
          /\ subscriptionsById' = IF built.threw THEN subscriptionsById ELSE built.sbi
    /\ call' = [ call EXCEPT !.op = "constructor" ]
    /\ UNCHANGED << emitted, before >>

SpecNew == InitNew /\ [][New]_vars

----------------------------------------------------------------------------
(* One subscriber with more subscriptions: subscription id 1 subscribes,    *)
(* generically or to record r1, and records that are r1 or have no id, with *)
(* foreign keys that are r1 or left out, are changed.                       *)

CallAddSubscriptionOfOne ==
    /\ call = Idle
    /\ \E modelName \in DOMAIN Associations, i \in 1..2 :
        AddSubscriptionCall(modelName, 1, InstanceIdArgs[i], MaxSubscriptionsOfOne)

CallNotifySubscribersPlain ==
    /\ call = Idle
    /\ \E modelName \in DOMAIN Associations,
          operation \in Operations,
          changedFields \in ChangedFieldsArgs,
          i \in 1..2 :
        \E j, k \in IF ForeignKeysOf(modelName) = { } THEN { 1 } ELSE 1..2 :
            NotifySubscribersCall(modelName, operation, changedFields,
                                  InstanceData(modelName, DataValues[i],
                                               DataValues[j], DataValues[k]))

NextOfOne ==
    \/ CallAddSubscriptionOfOne
    \/ CallNotifySubscribersPlain
    \/ Return

SpecOfOne == Init /\ [][NextOfOne]_vars

----------------------------------------------------------------------------
(* The hooks the constructor adds to each model, called by the record store *)
(* with the instances of the model read or written and the options of the   *)
(* call; subscriptions are also added directly.                             *)

\* the outcome r of a hook, kept while at most MaxSubscriptionsOfHooks
\* subscriptions are held
HookCall(hook, modelName, instance, options, changedFields, r) ==
    /\ Registered(r.reg.sbi) <= MaxSubscriptionsOfHooks
    /\ subscriptionsById' = r.reg.sbi
    /\ subscriptionsByResource' = r.reg.sbr
    /\ call' = [ op |-> hook, modelName |-> modelName, instance |-> instance,
                 options |-> options, changedFields |-> changedFields ]
    /\ thrown' = r.thrown
    /\ emitted' = r.emitted
    /\ before' = Registers
    /\ UNCHANGED << modelNames, dependingModelMap >>

CallAddSubscriptionDirectly ==
    /\ call = Idle
    /\ \E modelName \in DOMAIN Associations,
          subscriptionId \in SubscriptionIds,
          i \in 1..2 :
        AddSubscriptionCall(modelName, subscriptionId, InstanceIdArgs[i],
                            MaxSubscriptionsOfHooks)

\* afterFind: findOne gave null or an instance, findAll an array
AfterFindHook ==
    /\ call = Idle
    /\ \E modelName \in DOMAIN Associations,
          o \in 1..Len(TrackChangesArgs),
          kind \in { "null", "one", "array" },
          l \in 1..Len(RecordIdLists) :
        /\ kind = "null" => l = 1
        /\ kind = "one" => Len(RecordIdLists[l]) = 1
        /\ LET instance == [ kind |-> kind,
                             items |-> Instances(modelName, RecordIdLists[l]) ]
           IN HookCall("afterFind", modelName, instance, TrackChangesArgs[o],
                       ChangedFieldsArgs,
                       AddSubscriptionIfRequested(modelNames, Registers, modelName,
                                                  instance, TrackChangesArgs[o]))

\* afterCreate and afterUpdate of one instance
WriteHookCall(hook, operation, modelName, options, changedFields, id) ==
    HookCall(hook, modelName,
             [ kind |-> "one", items |-> << Instance(modelName, id) >> ],
             options, changedFields,
             AfterWrite(modelNames, Registers, dependingModelMap, modelName,
                        operation, Instance(modelName, id), options, changedFields))

AfterCreateHook ==
    /\ call = Idle
    /\ \E modelName \in DOMAIN Associations,
          o \in 1..Len(TrackChangesArgs),
          changedFields \in ChangedFieldsArgs,
          l \in 1..Len(RecordIdLists) :
        /\ Len(RecordIdLists[l]) = 1
        /\ WriteHookCall("afterCreate", "create", modelName, TrackChangesArgs[o],
                         changedFields, RecordIdLists[l][1])

AfterUpdateHook ==
    /\ call = Idle
    /\ \E modelName \in DOMAIN Associations,
          o \in 1..Len(TrackChangesArgs),
          changedFields \in ChangedFieldsArgs,
          l \in 1..Len(RecordIdLists) :
        /\ Len(RecordIdLists[l]) = 1
        /\ WriteHookCall("afterUpdate", "update", modelName, TrackChangesArgs[o],
                         changedFields, RecordIdLists[l][1])

AfterBulkCreateHook ==
    /\ call = Idle
    /\ \E modelName \in DOMAIN Associations,
          o \in 1..Len(TrackChangesArgs),
          changedFields \in ChangedFieldsArgs,
          l \in 1..Len(RecordIdLists) :
        HookCall("afterBulkCreate", modelName,
                 [ kind |-> "array",
                   items |-> Instances(modelName, RecordIdLists[l]) ],
                 TrackChangesArgs[o], changedFields,
                 AfterBulkCreate(modelNames, Registers, dependingModelMap, modelName,
                                 Instances(modelName, RecordIdLists[l]),
                                 TrackChangesArgs[o], changedFields, << >>))

AfterDestroyHook ==
    /\ call = Idle
    /\ \E modelName \in DOMAIN Associations,
          o \in 1..Len(TrackChangesArgs),
          changedFields \in ChangedFieldsArgs,
          l \in 1..Len(RecordIdLists) :
        /\ Len(RecordIdLists[l]) = 1
        /\ LET inst == Instance(modelName, RecordIdLists[l][1])
               n == NotifySubscribers(Registers, dependingModelMap, modelName,
                                      "delete", changedFields, inst.dataValues)
           IN HookCall("afterDestroy", modelName,
                       [ kind |-> "one", items |-> << inst >> ],
                       TrackChangesArgs[o], changedFields,
                       [ reg |-> Registers, thrown |-> n.thrown,
                         emitted |-> n.emitted ])

\* afterBulkUpdate and afterBulkDestroy: the hook is handed the options
\* only and its body is empty
EmptyHookCall(hook, modelName, options, changedFields) ==
    HookCall(hook, modelName, [ kind |-> "null", items |-> << >> ],
             options, changedFields,
             [ reg |-> Registers, thrown |-> "none", emitted |-> << >> ])

AfterBulkUpdateHook ==
    /\ call = Idle
    /\ \E modelName \in DOMAIN Associations,
          o \in 1..Len(TrackChangesArgs),
          changedFields \in ChangedFieldsArgs :
        EmptyHookCall("afterBulkUpdate", modelName, TrackChangesArgs[o], changedFields)

AfterBulkDestroyHook ==
    /\ call = Idle
    /\ \E modelName \in DOMAIN Associations,
          o \in 1..Len(TrackChangesArgs),
          changedFields \in ChangedFieldsArgs :
        EmptyHookCall("afterBulkDestroy", modelName, TrackChangesArgs[o], changedFields)

NextOfHooks ==
    \/ CallAddSubscriptionDirectly
    \/ AfterFindHook
    \/ AfterCreateHook
    \/ AfterBulkCreateHook
    \/ AfterUpdateHook
    \/ AfterBulkUpdateHook
    \/ AfterDestroyHook
    \/ AfterBulkDestroyHook
    \/ Return

SpecOfHooks == Init /\ [][NextOfHooks]_vars

----------------------------------------------------------------------------
(* Chains of models: the tracker is built from associations that make a     *)
(* model depend on a model that depends on a third, on each other, or on    *)
(* itself; one subscriber subscribes and instances are changed.             *)

BelongsTo(source, target) == [ source |-> source, kind |-> "BelongsTo", target |-> target ]

\* the associations tried: a chain, a cycle of two, a model that belongs to
\* itself, and a cycle of two below a self-reference
AssociationsTried ==
    << << BelongsTo("Message", "Thread"), BelongsTo("Thread", "User") >>,
       << BelongsTo("Message", "Thread"), BelongsTo("Thread", "Message") >>,
       << BelongsTo("Thread", "Thread") >>,
       << BelongsTo("User", "User"), BelongsTo("User", "Message"),
          BelongsTo("Message", "User") >> >>

InitOfChains ==
    \E c \in 1..Len(AssociationsTried) :
        LET built == Constructor(Models, AssociationsOf(AssociationsTried[c]))
        IN /\ ~built.threw
           /\ modelNames = built.names
           /\ dependingModelMap = built.map
           /\ subscriptionsByResource = built.sbr
           /\ subscriptionsById = built.sbi
           /\ call = Idle
           /\ thrown = "none"
           /\ emitted = << >>
           /\ before = [ sbi |-> built.sbi, sbr |-> built.sbr ]

\* the values a foreign key or an id takes here
ChainValues == << "r1", "generic" >>

\* instance.dataValues with a foreign key to each model
ChainData(id, messageId, threadId, userId) ==
    [ f \in { "id", "MessageId", "ThreadId", "UserId" } |->
        CASE f = "id" -> id
          [] f = "MessageId" -> messageId
          [] f = "ThreadId" -> threadId
          [] f = "UserId" -> userId ]

CallAddSubscriptionInChain ==
    /\ call = Idle
    /\ \E modelName \in DOMAIN dependingModelMap, i \in { 1, 2, 4 } :
        AddSubscriptionCall(modelName, 1, InstanceIdArgs[i], MaxSubscriptionsOfOne)

CallNotifySubscribersInChain ==
    /\ call = Idle
    /\ \E modelName \in DOMAIN dependingModelMap,
          operation \in Operations,
          changedFields \in ChangedFieldsArgs,
          m, t, u \in 1..Len(ChainValues) :
        NotifySubscribersCall(modelName, operation, changedFields,
                              ChainData("r1", ChainValues[m], ChainValues[t],
                                        ChainValues[u]))

NextOfChains ==
    \/ CallAddSubscriptionInChain
    \/ CallNotifySubscribersInChain
    \/ Return

SpecOfChains == InitOfChains /\ [][NextOfChains]_vars

----------------------------------------------------------------------------
(* Notions the properties are stated in *)

KnownModels == { Models[i] : i \in 1..Len(Models) }

\* the subscription objects a subscription id holds
Held(reg, subscriptionId) ==
    IF subscriptionId \in DOMAIN reg.sbi THEN reg.sbi[subscriptionId] ELSE << >>

\* the subscription of kind generic (instanceId = Undefined) or specific on
\* instanceId is in the register indexed by subscription id
InById(reg, subscriptionId, modelName, instanceId) ==
    Includes(Held(reg, subscriptionId),
             SubscriptionObject(modelName, instanceId, instanceId = Undefined))

\* the list the register indexed by resource keeps for that resource
ResourceList(reg, modelName, instanceId) ==
    IF instanceId = Undefined THEN reg.sbr[modelName].generic
    ELSE ListProp(reg.sbr[modelName], instanceId)

InByResource(reg, subscriptionId, modelName, instanceId) ==
    Includes(ResourceList(reg, modelName, instanceId), subscriptionId)

Occurrences(array, x) == Cardinality({ i \in 1..Len(array) : array[i] = x })

NoRepeats(array) == \A i, j \in 1..Len(array) : array[i] = array[j] => i = j

\* both registers hold the same subscriptions (an empty list counts as none)
SameMembership(r1, r2) ==
    /\ \A id \in SubscriptionIds :
          { Held(r1, id)[i] : i \in 1..Len(Held(r1, id)) }
            = { Held(r2, id)[i] : i \in 1..Len(Held(r2, id)) }
    /\ \A m \in KnownModels : \A k \in (DOMAIN r1.sbr[m]) \cup (DOMAIN r2.sbr[m]) :
          { ListProp(r1.sbr[m], k)[i] : i \in 1..Len(ListProp(r1.sbr[m], k)) }
            = { ListProp(r2.sbr[m], k)[i] : i \in 1..Len(ListProp(r2.sbr[m], k)) }

\* the subscription id occurs nowhere in either register
Unsubscribed(reg, subscriptionId) ==
    /\ Held(reg, subscriptionId) = << >>
    /\ \A m \in DOMAIN reg.sbr : \A k \in DOMAIN reg.sbr[m] :
          ~Includes(reg.sbr[m][k], subscriptionId)

----------------------------------------------------------------------------
(* Properties *)

\* C1: in every reachable state the two registers agree: a subscription
\* (subscriptionId, model, kind, instanceId) is in subscriptionsById if and
\* only if subscriptionId is in subscriptionsByResource under that resource.
C1_RegistersAgree ==
    \A id \in SubscriptionIds, m \in KnownModels, inst \in InstanceIds \cup { Undefined } :
        InById(Registers, id, m, inst) <=> InByResource(Registers, id, m, inst)

\* C2: in every reachable state no subscription is stored twice: no
\* subscription id holds two equal subscription objects, and no list of the
\* register indexed by resource holds a subscription id twice.
C2_NoDuplicateSubscription ==
    /\ \A id \in DOMAIN subscriptionsById : NoRepeats(subscriptionsById[id])
    /\ \A m \in DOMAIN subscriptionsByResource : \A k \in DOMAIN subscriptionsByResource[m] :
          NoRepeats(subscriptionsByResource[m][k])

\* C3: removeSubscription called right after a successful addSubscription
\* with the same arguments succeeds and leaves both registers with the
\* membership they had before the addSubscription.
C3_AddThenRemoveRestores ==
    (call.op = "removeSubscription" /\ call.followsAdd)
        => (thrown = "none" /\ SameMembership(Registers, before))

\* C4: after removeSubscriptionAllModels( subscriptionId ) neither register
\* contains that subscription id, however many subscriptions it held.
C4_RemoveAllRemovesEverything ==
    call.op = "removeSubscriptionAllModels"
        => Unsubscribed(Registers, call.subscriptionId)

\* C5: addSubscription of a subscription that is already registered throws
\* 'Already subscribed', leaves both registers as they were and emits no
\* subscriptions-changed event.
C5_DuplicateAddRejected ==
    ( /\ call.op = "addSubscription"
      /\ call.modelName \in KnownModels
      /\ InById(before, call.subscriptionId, call.modelName, call.instanceId) )
        => ( /\ thrown = "Already subscribed"
             /\ Registers = before
             /\ emitted = << >> )

\* C5 witness: a duplicate addSubscription has just been rejected
C5_Witness ==
    /\ call.op = "addSubscription"
    /\ call.modelName \in KnownModels
    /\ InById(before, call.subscriptionId, call.modelName, call.instanceId)
    /\ thrown = "Already subscribed"
    /\ Len(Held(before, call.subscriptionId)) = 2

\* C6: removeSubscription of a subscription that is in neither register
\* fails and leaves both registers unchanged; it succeeds, removing the
\* subscription from both registers, exactly when it is in both.
C6_RemoveSucceedsIffPresent ==
    (call.op = "removeSubscription" /\ ~call.followsAdd) =>
        LET inBoth == /\ InById(before, call.subscriptionId, call.modelName, call.instanceId)
                      /\ InByResource(before, call.subscriptionId, call.modelName, call.instanceId)
        IN /\ (thrown = "none") <=> inBoth
           /\ ~inBoth => Registers = before
           /\ inBoth =>
                /\ ~InById(Registers, call.subscriptionId, call.modelName, call.instanceId)
                /\ ~InByResource(Registers, call.subscriptionId, call.modelName, call.instanceId)

\* C7: addSubscription with a model name the constructor was not given
\* throws 'Unknown model', leaves both registers unchanged and emits nothing;
\* and every model name in either register is one the constructor was given.
C7_UnknownModelRejected ==
    /\ (call.op = "addSubscription" /\ call.modelName \notin KnownModels)
          => ( /\ thrown = "Unknown model"
               /\ Registers = before
               /\ emitted = << >> )
    /\ DOMAIN subscriptionsByResource \subseteq KnownModels
    /\ \A id \in DOMAIN subscriptionsById : \A i \in 1..Len(subscriptionsById[id]) :
          subscriptionsById[id][i].modelName \in KnownModels

\* C7 witness: an addSubscription on an unknown model has just been rejected
\* while subscriptions are registered
C7_Witness ==
    /\ call.op = "addSubscription"
    /\ call.modelName = UnknownModel
    /\ thrown = "Unknown model"
    /\ Registered(subscriptionsById) > 0

\* C8: a subscription id whose only subscription is generic on model T is in
\* exactly one data-changed event, once, for each create and each delete of
\* a T record, and in no data-changed event for an update of a T record.
C8_GenericOnCreateAndDeleteOnly ==
    \A id \in SubscriptionIds, T \in KnownModels :
        ( /\ call.op = "notifySubscribers"
          /\ call.modelName = T
          /\ Held(Registers, id) = << SubscriptionObject(T, Undefined, TRUE) >> )
            => IF call.operation \in { "create", "delete" }
               THEN /\ Len(emitted) = 1
                    /\ Occurrences(emitted[1].subscriptionIds, id) = 1
               ELSE \A i \in 1..Len(emitted) :
                        ~Includes(emitted[i].subscriptionIds, id)

\* C9: among the mutations of T records, a subscription id whose only
\* subscription is specific on (T, instanceId) is in the data-changed event
\* of every update and delete of the record with that id, and in no event of
\* a create on T or of an update or delete of a T record with another id.
C9_SpecificOnUpdateAndDeleteOfItsRecordOnly ==
    \A id \in SubscriptionIds, T \in KnownModels, inst \in InstanceIds :
        ( /\ call.op = "notifySubscribers"
          /\ call.modelName = T
          /\ Held(Registers, id) = << SubscriptionObject(T, inst, FALSE) >> )
            => IF /\ call.operation \in { "update", "delete" }
                  /\ call.instanceData["id"] = inst
               THEN /\ Len(emitted) = 1
                    /\ Includes(emitted[1].subscriptionIds, id)
               ELSE \A i \in 1..Len(emitted) :
                        ~Includes(emitted[i].subscriptionIds, id)

\* C10: the subscriber list of every emitted data-changed event holds no
\* subscription id twice.
C10_SubscriberListDeduplicated ==
    \A i \in 1..Len(emitted) :
        emitted[i].type = "data-changed" => NoRepeats(emitted[i].subscriptionIds)

\* C11: a delete of a record for which one subscription id holds both a
\* generic subscription on the model and a specific subscription on that
\* record emits exactly one data-changed event, and its subscriber list
\* holds that subscription id exactly once.
C11_DeleteOfDoublySubscribedRecordNotifiesOnce ==
    \A id \in SubscriptionIds :
        ( /\ call.op = "notifySubscribers"
          /\ call.operation = "delete"
          /\ call.instanceData["id"] \in InstanceIds
          /\ InById(Registers, id, call.modelName, Undefined)
          /\ InById(Registers, id, call.modelName, call.instanceData["id"]) )
            => ( /\ Len(emitted) = 1
                 /\ Occurrences(emitted[1].subscriptionIds, id) = 1 )

\* the subscription ids holding a specific subscription on the instance of
\* dependingModel that the changed instance of the call refers to
ReferredSubscribers(dependingModel) ==
    { id \in SubscriptionIds :
        /\ GetProp(call.instanceData, ForeignKey(dependingModel)) \in InstanceIds
        /\ InById(Registers, id, dependingModel,
                  GetProp(call.instanceData, ForeignKey(dependingModel))) }

\* C12: when a record of model C is created, updated or deleted and its
\* foreign key <P>Id is p, for a model P that the map lists for C, then one
\* data-changed event is emitted, it is about model C, and its subscriber
\* list holds every subscription id with a specific subscription on (P, p).
C12_CascadeReachesSubscribersOfReferredRecord ==
    call.op = "notifySubscribers" =>
        \A i \in 1..Len(dependingModelMap[call.modelName]) :
            \A id \in ReferredSubscribers(dependingModelMap[call.modelName][i]) :
                /\ thrown = "none"
                /\ Len(emitted) = 1
                /\ emitted[1].type = "data-changed"
                /\ emitted[1].model = call.modelName
                /\ Includes(emitted[1].subscriptionIds, id)

\* a message referring to user r1 was changed while a subscription on user
\* r1 was held, and the event was emitted
C12_Witness ==
    /\ call.op = "notifySubscribers"
    /\ call.modelName = "Message"
    /\ call.instanceData["UserId"] = "r1"
    /\ ReferredSubscribers("User") # { }
    /\ Len(emitted) = 1

\* the subscription ids the by-resource register gives for the call: on the
\* generic list of the model for a create or delete, on the list of the
\* instance for an update or delete, or on the list of an instance that a
\* foreign key of the changed instance names
NotifiedSet ==
    LET sbr == subscriptionsByResource
        m == call.modelName
    IN { id \in SubscriptionIds :
           \/ /\ call.operation \in genericOperations
              /\ Includes(sbr[m].generic, id)
           \/ /\ call.operation \in specificOperations
              /\ Includes(ListProp(sbr[m], GetProp(call.instanceData, "id")), id)
           \/ \E i \in 1..Len(dependingModelMap[m]) :
                 Includes(ListProp(sbr[dependingModelMap[m][i]],
                                   GetProp(call.instanceData,
                                           ForeignKey(dependingModelMap[m][i]))),
                          id) }

\* C13: a notifySubscribers call emits exactly one data-changed event when
\* its set of subscribers is not empty and none when it is empty, an empty
\* set is no error, and the event carries the operation, the model, the
\* instance data and the changed fields handed in and the subscribers
\* computed for that call.
C13_OneEventIffSubscribers ==
    call.op = "notifySubscribers" =>
        /\ thrown = "none"
        /\ Len(emitted) = IF NotifiedSet = { } THEN 0 ELSE 1
        /\ \A e \in 1..Len(emitted) :
              /\ emitted[e].type = "data-changed"
              /\ emitted[e].operation = call.operation
              /\ emitted[e].model = call.modelName
              /\ emitted[e].instance = call.instanceData
              /\ emitted[e].changedFields = call.changedFields
              /\ { emitted[e].subscriptionIds[i] :
                      i \in 1..Len(emitted[e].subscriptionIds) } = NotifiedSet

\* an update whose subscribers are both subscription ids was notified with
\* the list 1, 2
C13_Witness ==
    /\ call.op = "notifySubscribers"
    /\ call.operation = "update"
    /\ NotifiedSet = SubscriptionIds
    /\ Len(emitted) = 1
    /\ emitted[1].subscriptionIds = << 1, 2 >>

\* no subscription id holds a subscription, generic or specific, on the model
NoSubscriptionOn(modelName) ==
    \A id \in SubscriptionIds :
        \A i \in 1..Len(Held(Registers, id)) :
            Held(Registers, id)[i].modelName # modelName

\* C14 as claimed: when no subscription exists on a model, a change of one of
\* its instances emits no data-changed event, whatever is subscribed on the
\* other models.
C14_NoSubscriptionOnModelNoEvent ==
    ( call.op = "notifySubscribers" /\ NoSubscriptionOn(call.modelName) )
        => emitted = << >>

\* C14, amended: when no subscription exists on a model nor on any model the
\* map lists for it (those its foreign keys refer to), a change of one of
\* its instances emits no data-changed event, whatever is subscribed on the
\* remaining models.
C14_NoSubscriptionOnModelAndReferredNoEvent ==
    ( /\ call.op = "notifySubscribers"
      /\ NoSubscriptionOn(call.modelName)
      /\ \A i \in 1..Len(dependingModelMap[call.modelName]) :
            NoSubscriptionOn(dependingModelMap[call.modelName][i]) )
        => ( thrown = "none" /\ emitted = << >> )

\* a user was created while subscriptions were held on messages only
C14_Witness ==
    /\ call.op = "notifySubscribers"
    /\ call.modelName = "User"
    /\ call.operation = "create"
    /\ NoSubscriptionOn("User")
    /\ InById(Registers, 1, "Message", Undefined)
    /\ InById(Registers, 2, "Message", "r1")
    /\ emitted = << >>

\* C15: a notifySubscribers call for an update or a delete whose instance
\* data holds no id fails with InvalidMutationEvent and emits no event.
C15_MissingIdFailsFast ==
    ( /\ call.op = "notifySubscribers"
      /\ call.operation \in specificOperations
      /\ GetProp(call.instanceData, "id") \in { Undefined, Null } )
        => ( thrown = "InvalidMutationEvent" /\ emitted = << >> )

\* the subscribers of the call left when the models whose foreign key is
\* absent or null in the changed instance contribute nothing
NotifiedSetOfPresentKeys ==
    LET sbr == subscriptionsByResource
        m == call.modelName
    IN { id \in SubscriptionIds :
           \/ /\ call.operation \in genericOperations
              /\ Includes(sbr[m].generic, id)
           \/ /\ call.operation \in specificOperations
              /\ Includes(ListProp(sbr[m], GetProp(call.instanceData, "id")), id)
           \/ \E i \in 1..Len(dependingModelMap[m]) :
                 /\ GetProp(call.instanceData, ForeignKey(dependingModelMap[m][i]))
                        \notin { Undefined, Null }
                 /\ Includes(ListProp(sbr[dependingModelMap[m][i]],
                                      GetProp(call.instanceData,
                                              ForeignKey(dependingModelMap[m][i]))),
                             id) }

\* C16: a foreign key that is absent or null in the changed instance makes
\* the cascade add no subscription id for the model it refers to and raise
\* no error, in every register addSubscription can build: the call does not
\* throw and every id in an emitted event comes from the changed model's
\* own lists or from a foreign key that is present.
C16_AbsentOrNullForeignKeyContributesNothing ==
    call.op = "notifySubscribers" =>
        /\ thrown = "none"
        /\ \A e \in 1..Len(emitted) :
              \A i \in 1..Len(emitted[e].subscriptionIds) :
                  emitted[e].subscriptionIds[i] \in NotifiedSetOfPresentKeys

\* the tracker was built from the associations of the call
Built == call.op = "constructor" /\ thrown = "none"

\* the associations declared on a model in the call
Declared(m) == { call.associations[m][i] : i \in 1..Len(call.associations[m]) }

\* model c holds the foreign key to model p: c.belongsTo(p), p.hasOne(c) or
\* p.hasMany(c) was declared
HoldsForeignKeyTo(c, p) ==
    \/ /\ c \in DOMAIN call.associations
       /\ \E a \in Declared(c) : a.kind = "BelongsTo" /\ a.target = p
    \/ /\ p \in DOMAIN call.associations
       /\ \E a \in Declared(p) : a.kind \in { "HasOne", "HasMany" } /\ a.target = c

\* C17 as claimed: every model holding a foreign key to a model P is exactly
\* once in the list the map keeps under P, however the relation was
\* declared, and no list of the map holds a model twice.
C17_HolderOnceInListOfReferred ==
    Built =>
        /\ \A c, p \in KnownModels :
              HoldsForeignKeyTo(c, p) => Occurrences(dependingModelMap[p], c) = 1
        /\ \A m \in DOMAIN dependingModelMap : NoRepeats(dependingModelMap[m])

\* C17, amended: for every model C holding a foreign key to a model P, P is
\* exactly once in the list the map keeps under C, whether the relation was
\* declared as belongsTo on C, as hasOne or hasMany on P, or both ways, and
\* no list of the map holds a model twice, self-references included.
C17_ReferredOnceInListOfHolder ==
    Built =>
        /\ \A c, p \in KnownModels :
              HoldsForeignKeyTo(c, p) => Occurrences(dependingModelMap[c], p) = 1
        /\ \A m \in DOMAIN dependingModelMap : NoRepeats(dependingModelMap[m])

\* a tracker was built with Message.belongsTo(User) and User.hasMany(Message)
C17_Witness ==
    /\ Built
    /\ \E a \in Declared("Message") : a.kind = "BelongsTo" /\ a.target = "User"
    /\ \E a \in Declared("User") : a.kind = "HasMany" /\ a.target = "Message"
    /\ dependingModelMap["Message"] = << "User" >>

\* a tracker was built with a model that belongs to itself and has many of
\* itself
C17_WitnessSelfReference ==
    /\ Built
    /\ \E a \in Declared("Thread") : a.kind = "BelongsTo" /\ a.target = "Thread"
    /\ \E a \in Declared("Thread") : a.kind = "HasMany" /\ a.target = "Thread"
    /\ dependingModelMap["Thread"] = << "Thread" >>

\* the model takes part in no association of the call
NoRelationships(m) ==
    /\ Declared(m) = { }
    /\ \A s \in DOMAIN call.associations : \A a \in Declared(s) : a.target # m

\* C18: the map of a built tracker has a list for every model handed to the
\* constructor, the list of a model with no relationships is empty, the
\* list under a model C that holds the foreign key to P (C.belongsTo(P),
\* P.hasOne(C), P.hasMany(C)) holds P, and S.belongsToMany(T) puts T in the
\* list under S.
C18_MapKeyedByForeignKeyHolder ==
    Built =>
        /\ DOMAIN dependingModelMap = KnownModels
        /\ \A m \in KnownModels :
              /\ dependingModelMap[m] \in Seq(KnownModels \cup { UnknownModel })
              /\ NoRelationships(m) => dependingModelMap[m] = << >>
        /\ \A c \in KnownModels : \A p \in KnownModels \cup { UnknownModel } :
              HoldsForeignKeyTo(c, p) => Includes(dependingModelMap[c], p)
        /\ \A s \in KnownModels : \A a \in Declared(s) :
              a.kind = "BelongsToMany" => Includes(dependingModelMap[s], a.target)

\* a tracker was built with User.hasMany(Message) and
\* Message.belongsToMany(Thread): Message lists both, User and Thread none
C18_Witness ==
    /\ Built
    /\ \E a \in Declared("User") : a.kind = "HasMany" /\ a.target = "Message"
    /\ \E a \in Declared("Message") : a.kind = "BelongsToMany" /\ a.target = "Thread"
    /\ dependingModelMap["Message"] = << "Thread", "User" >>
    /\ dependingModelMap["User"] = << >>
    /\ dependingModelMap["Thread"] = << >>

\* C19: constructing with an association that refers to a model the
\* constructor was not given fails, whatever the kind of the association,
\* and no tracker is built whose map mentions such a model.
C19_UnknownModelFailsConstruction ==
    call.op = "constructor" =>
        /\ ( \E m \in DOMAIN call.associations : \E a \in Declared(m) :
                a.target = UnknownModel ) => thrown # "none"
        /\ \A m \in DOMAIN dependingModelMap :
              ~Includes(dependingModelMap[m], UnknownModel)

\* one step of the tracker seen from the listeners of subscriptions-changed
C20_Step ==
    /\ ( call'.op = "addSubscription" /\ thrown' = "none" ) =>
          emitted' = << [ type |-> "subscriptions-changed",
                          subscriptionId |-> call'.subscriptionId,
                          modelName |-> call'.modelName,
                          instanceId |-> call'.instanceId,
                          generic |-> (call'.instanceId = Undefined) ] >>
    /\ ( call'.op = "addSubscription" /\ thrown' # "none" ) => emitted' = << >>
    /\ Registers' # Registers =>
          \E e \in 1..Len(emitted') : emitted'[e].type = "subscriptions-changed"

TrackingHooks == { "afterFind", "afterCreate", "afterBulkCreate", "afterUpdate" }

\* the hook of the call was asked to track changes for a subscription id
Flagged == call.options.trackChanges /\ call.options.subscriptionId # 0

DataChanged == SelectSeq(emitted, LAMBDA e : e.type = "data-changed")

\* a create of an instance of the model with these data has a subscriber:
\* a generic one of the model, or one of an instance its foreign keys name
CreateHasSubscribers(modelName, dataValues) ==
    \/ subscriptionsByResource[modelName].generic # << >>
    \/ \E i \in 1..Len(dependingModelMap[modelName]) :
          ListProp(subscriptionsByResource[dependingModelMap[modelName][i]],
                   GetProp(dataValues, ForeignKey(dependingModelMap[modelName][i])))
            # << >>

\* the data of the instances the hook of the call was handed, in their order
HandedData == [ i \in 1..Len(call.instance.items) |-> call.instance.items[i].dataValues ]

C22_WitnessBulkUpdate ==
    /\ call.op = "afterBulkUpdate"
    /\ subscriptionsByResource[call.modelName].generic # << >>
    /\ emitted = << >>

\* a step that is a notifySubscribers call, or a listener changing the list
\* of subscription ids it was handed, leaves both registers and the map of
\* depending models as they were
C23_Step ==
    call'.op \in { "notifySubscribers", "listener" } =>
        /\ subscriptionsById' = subscriptionsById
        /\ subscriptionsByResource' = subscriptionsByResource
        /\ dependingModelMap' = dependingModelMap

\* C23: notifySubscribers leaves both registers and dependingModelMap
\* unchanged, whether it emits or not, and the list of subscription ids it
\* hands to the listeners is a copy: a listener changing it changes no list
\* of the registers. Subscriptions on a deleted instance stay registered.
C23_NotifyLeavesRegistersAlone == [][C23_Step]_vars

\* a delete was notified, the listener emptied the list it was handed, and
\* the subscriptions on the deleted instance and on its model are still held
C23_Witness ==
    /\ call.op = "listener"
    /\ call.operation = "delete"
    /\ call.instanceData["id"] = "r1"
    /\ emitted[1].subscriptionIds = << >>
    /\ InById(Registers, 1, call.modelName, "r1")
    /\ InByResource(Registers, 1, call.modelName, "r1")
    /\ InByResource(Registers, 2, call.modelName, Undefined)

\* the subscription id holds a subscription that the change of the call
\* concerns directly: a generic one on the model for a create or delete, a
\* specific one on the instance for an update or delete
DirectSubscriber(id) ==
    \/ /\ call.operation \in genericOperations
       /\ InById(Registers, id, call.modelName, Undefined)
    \/ /\ call.operation \in specificOperations
       /\ GetProp(call.instanceData, "id") # Undefined
       /\ InById(Registers, id, call.modelName, GetProp(call.instanceData, "id"))

\* the subscription id holds a specific subscription on the instance that a
\* foreign key of the changed instance names, of a model the map lists
\* directly for the changed model
OneHopSubscriber(id) ==
    \E i \in 1..Len(dependingModelMap[call.modelName]) :
        LET d == dependingModelMap[call.modelName][i]
        IN /\ GetProp(call.instanceData, ForeignKey(d)) # Undefined
           /\ InById(Registers, id, d, GetProp(call.instanceData, ForeignKey(d)))

\* C24: the cascade is one hop: a notifySubscribers call ends without an
\* error for every map of depending models, cyclic and self-referencing
\* ones too, and besides the direct subscribers its event names only
\* subscription ids with a specific subscription on an instance of a model
\* listed directly for the changed model, never those of a model reached
\* through two or more edges only.
C24_CascadeIsOneHop ==
    call.op = "notifySubscribers" =>
        /\ thrown = "none"
        /\ \A e \in 1..Len(emitted) :
              \A i \in 1..Len(emitted[e].subscriptionIds) :
                  \/ DirectSubscriber(emitted[e].subscriptionIds[i])
                  \/ OneHopSubscriber(emitted[e].subscriptionIds[i])

\* the subscription ids of a list of the by-resource register, in the order
\* they were registered in, that hold the subscription the list is for
HoldersIn(modelName, instanceId) ==
    SelectSeq(ListProp(subscriptionsByResource[modelName],
                       IF instanceId = Undefined THEN "generic" ELSE instanceId),
              LAMBDA id : InById(Registers, id, modelName, instanceId))

\* the specific subscribers of the instances the foreign keys of the changed
\* instance name, from the k-th model of the map on, in the order of the map
RECURSIVE CascadedFrom(_)
CascadedFrom(k) ==
    IF k > Len(dependingModelMap[call.modelName]) THEN << >>
    ELSE LET d == dependingModelMap[call.modelName][k]
             key == GetProp(call.instanceData, ForeignKey(d))
         IN ( IF key = Undefined THEN << >> ELSE HoldersIn(d, key) )
              \o CascadedFrom(k + 1)

\* the list the claim describes for the call: the generic subscribers of the
\* model, then the specific subscribers of the instance not yet listed, then
\* the cascaded ones
OrderedSubscribers ==
    LET generics == IF call.operation \in genericOperations
                    THEN UniqueInOrder(HoldersIn(call.modelName, Undefined))
                    ELSE << >>
        id == GetProp(call.instanceData, "id")
        specifics == IF call.operation \in specificOperations /\ id # Undefined
                     THEN SelectSeq(UniqueInOrder(HoldersIn(call.modelName, id)),
                                    LAMBDA x : ~Includes(generics, x))
                     ELSE << >>
    IN generics \o specifics \o CascadedFrom(1)

\* C25: the subscribers in the list of every data-changed event are ordered:
\* the generic subscribers of the changed model in the order they
\* registered, then the specific subscribers of the changed instance in the
\* order they registered, then the cascaded subscribers in the order of the
\* map, so that a direct subscriber comes before one that is there through
\* the cascade only. Each subscriber is taken where the list first has it.
C25_SubscriberListOrdered ==
    call.op = "notifySubscribers" =>
        \A e \in 1..Len(emitted) :
            UniqueInOrder(SelectSeq(emitted[e].subscriptionIds,
                                    LAMBDA id : Includes(OrderedSubscribers, id)))
                = UniqueInOrder(OrderedSubscribers)

\* both registers hold the same subscriptions
IndicesAgree ==
    \A id \in SubscriptionIds, m \in KnownModels, inst \in InstanceIds \cup { Undefined } :
        InById(Registers, id, m, inst) <=> InByResource(Registers, id, m, inst)

\* when an event has been emitted and its listeners run the registers
\* agree, and a listener that calls addSubscription leaves the event it
\* was handed as it was
C26_Step ==
    /\ emitted' # << >> => IndicesAgree'
    /\ call'.op = "reentered" => emitted'[1] = emitted[1]

\* C26: listeners never see a half-applied change of the registers: when a
\* listener of subscriptions-changed or data-changed runs, and possibly
\* calls the tracker again, the two registers agree with each other, and a
\* list of subscription ids that notifySubscribers has computed is not
\* changed by what a listener does to the registers.
C26_ListenersSeeAgreeingRegisters == [][C26_Step]_vars

\* the operation a hook for one written instance notifies
OperationOf(hook) == IF hook = "afterCreate" THEN "create" ELSE "update"

\* before the hook of the call ran, the change it is about had a subscriber
\* in the by-resource register: on the generic list of the model (create),
\* on the list of the instance (update), or on the list of an instance that
\* a foreign key of the written instance names
HadSubscribers ==
    LET m == call.modelName
        data == call.instance.items[1].dataValues
    IN \/ /\ OperationOf(call.op) \in genericOperations
          /\ before.sbr[m].generic # << >>
       \/ /\ OperationOf(call.op) \in specificOperations
          /\ ListProp(before.sbr[m], GetProp(data, "id")) # << >>
       \/ \E i \in 1..Len(dependingModelMap[m]) :
             ListProp(before.sbr[dependingModelMap[m][i]],
                      GetProp(data, ForeignKey(dependingModelMap[m][i]))) # << >>

\* C27: every afterCreate and afterUpdate hook for a change that has a
\* subscriber emits a data-changed event, whatever its options say about
\* tracking: a registration that fails in the same hook (the subscription
\* id is already subscribed to the instance, or trackChanges has no
\* subscription id) does not keep the subscribers from being notified.
C27_WriteHookNotifiesDespiteTracking ==
    ( call.op \in { "afterCreate", "afterUpdate" } /\ HadSubscribers )
        => \E e \in 1..Len(emitted) :
              /\ emitted[e].type = "data-changed"
              /\ emitted[e].operation = OperationOf(call.op)
              /\ emitted[e].model = call.modelName

\* C28: an afterFind hook that is handed an array of instances and asked to
\* track them for a subscription id registers all or nothing: either it
\* completes and the id is subscribed to every instance of the array, or it
\* throws and both registers are as they were before the hook, so that no
\* instance ahead of one the id was already subscribed to has been registered.
C28_FlaggedFindAllIsAllOrNothing ==
    ( call.op = "afterFind" /\ call.instance.kind = "array" /\ Flagged ) =>
        \/ /\ thrown = "none"
           /\ \A i \in 1..Len(call.instance.items) :
                 InById(Registers, call.options.subscriptionId, call.modelName,
                        call.instance.items[i].dataValues["id"])
        \/ /\ thrown # "none"
           /\ Registers = before

\* C29: generic and specific subscriptions are kept apart, also for an
\* instance whose id is the string 'generic': the generic list of a model
\* holds only subscription ids with a generic subscription on the model and
\* holds none of them twice, and the event of a create names only
\* subscription ids with a generic subscription on the created model or with
\* a specific subscription on the instance a foreign key names, so that a
\* specific subscriber of (model, 'generic') is not told of creates and a
\* foreign key 'generic' does not reach the generic subscribers.
C29_GenericAndSpecificApart ==
    /\ \A m \in KnownModels, id \in SubscriptionIds :
          /\ Includes(subscriptionsByResource[m].generic, id)
                => InById(Registers, id, m, Undefined)
          /\ Occurrences(subscriptionsByResource[m].generic, id) <= 1
    /\ ( call.op = "notifySubscribers" /\ call.operation = "create" ) =>
          \A e \in 1..Len(emitted) :
              \A i \in 1..Len(emitted[e].subscriptionIds) :
                  \/ InById(Registers, emitted[e].subscriptionIds[i],
                            call.modelName, Undefined)
                  \/ OneHopSubscriber(emitted[e].subscriptionIds[i])

\* the subscriptions of every subscription id but this one are the same in
\* both registers as before the call
OthersUntouched(subscriptionId) ==
    /\ \A id \in SubscriptionIds \ { subscriptionId } :
          Held(Registers, id) = Held(before, id)
    /\ \A m \in KnownModels :
          \A k \in (DOMAIN subscriptionsByResource[m]) \cup (DOMAIN before.sbr[m]) :
              SelectSeq(ListProp(subscriptionsByResource[m], k),
                        LAMBDA id : id # subscriptionId)
                = SelectSeq(ListProp(before.sbr[m], k),
                            LAMBDA id : id # subscriptionId)

\* C30: removeSubscriptionAllModels called with a subscription id that holds
\* no subscription ends without an error and leaves both registers as they
\* were; called with any subscription id, it leaves the subscriptions of
\* every other subscription id as they were.
C30_RemoveAllOfNoneIsNoOp ==
    call.op = "removeSubscriptionAllModels" =>
        /\ Held(before, call.subscriptionId) = << >>
              => ( thrown = "none" /\ Registers = before )
        /\ OthersUntouched(call.subscriptionId)

====
